---------------------------- MODULE Spec2Model ----------------------------
(***************************************************************************)
(* Model of the HTML table normaliser of 25ICN_NewsReport                  *)
(* (src/src/parser/table_parser.py).                                       *)
(*                                                                         *)
(* A document is modelled by what BeautifulSoup's html.parser hands to the *)
(* code: whether a <table> exists, and the table's sections in document    *)
(* order, each with its tag ("thead", "tbody", or another container such   *)
(* as "tfoot") and its <tr> elements; a <tr> is the sequence of its        *)
(* <th>/<td> cells; a cell carries its attribute dictionary, its <img>     *)
(* elements and its text nodes.  Python lists are 0-based, TLA+ sequences  *)
(* 1-based: indices keep their Python value and are shifted on access.     *)
(* The Korean literal of the image token is written IMG here (the module   *)
(* is ASCII).                                                              *)
(*                                                                         *)
(* The second half models the article body classifier of the crawler       *)
(* (src/incheon_airport_crawler.py): parse_body_structure, its inner       *)
(* split_sentences, and parse_tables.  Texts handled character by          *)
(* character are sequences of one-character strings.                       *)
(*                                                                         *)
(* The last part models the crawl loop of the same file: crawl and         *)
(* extract_articles_from_list, with the output file crawl loads and saves. *)
(***************************************************************************)
EXTENDS Integers, Sequences, FiniteSets, TLC

VARIABLES pc,       \* "idle" before the call, "done" after it
          html,     \* the argument of parse_html_table
          result,   \* what parse_html_table returned or raised
          split_text,         \* the argument of split_sentences
          sentences,          \* what split_sentences returned
          main_content_node,  \* the node handed to the body classifier
          body_structure,     \* what parse_body_structure returned
          tables,             \* what parse_tables returned
          calls,    \* for each caller, the call it is in and where it stands
          frames,   \* the local variables of the calls in progress
          out_json,      \* the output file: whether it exists, its articles
          crawl_at,      \* where crawl stands: "idle", "page", "items", "returned"
          crawl_calls,   \* how many calls of crawl were made
          start_page,    \* the arguments of the call of crawl
          max_pages,
          seen_ids,      \* the local variables of crawl
          articles,
          current_page,
          page_items,    \* the items of the page the for loop has yet to handle
          loaded,        \* the articles this call read from the output file
          fetched        \* the items this call handed to parse_article

crawlerVars ==
    <<split_text, sentences, main_content_node, body_structure, tables>>

callVars == <<calls, frames>>

runVars ==
    <<out_json, crawl_at, crawl_calls, start_page, max_pages, seen_ids,
      articles, current_page, page_items, loaded, fetched>>

vars == <<pc, html, result, split_text, sentences, main_content_node,
          body_structure, tables, calls, frames, out_json, crawl_at,
          crawl_calls, start_page, max_pages, seen_ids, articles,
          current_page, page_items, loaded, fetched>>

\* a value that is None or a list
None == [none |-> TRUE, list |-> << >>]

List(l) == [none |-> FALSE, list |-> l]

\* a content node that was not found: find() returned None
AbsentNode == [present |-> FALSE, children |-> << >>]

\* before any call of the crawler's functions
CrawlerIdle ==
    /\ split_text = << >>
    /\ sentences = None
    /\ main_content_node = AbsentNode
    /\ body_structure = [raised |-> "", header |-> None, sub_header |-> None,
                         content |-> None]
    /\ tables = [raised |-> "", list |-> << >>]

\* before any call of crawl: no output file yet
RunIdle ==
    /\ out_json = [exists |-> FALSE, articles |-> << >>]
    /\ crawl_at = "idle"
    /\ crawl_calls = 0
    /\ start_page = 1
    /\ max_pages = 0
    /\ seen_ids = {}
    /\ articles = << >>
    /\ current_page = 1
    /\ page_items = << >>
    /\ loaded = << >>
    /\ fetched = << >>

\* the callers that may be inside a call at the same time
Procs == {1, 2}

\* normalize_rows before its first row: grid = [], no placement logged
StartOfRun == [raised |-> "", grid |-> << >>, col_index |-> 0, placed |-> << >>]

NoneClassified ==
    [header_elements |-> << >>, sub_header_elements |-> << >>,
     processed_texts |-> {}, log |-> << >>]

IdleCall == [fn |-> "", at |-> "idle"]

\* the local variables of a call: the grid being filled with its column
\* cursor, the grids already returned by normalize_rows, and the lists
\* and sets of the classification loop
EmptyFrame == [st |-> StartOfRun, grids |-> << >>, cls |-> NoneClassified]

\* nobody is in a call
CallsIdle ==
    /\ calls = [p \in Procs |-> IdleCall]
    /\ frames = [f \in Procs |-> EmptyFrame]

---------------------------------------------------------------------------
(* Python helpers *)

\* list[i] is defined for -len <= i < len; a negative i counts from the end
PyInRange(list, i) == (0 - Len(list)) <= i /\ i < Len(list)

PyPos(list, i) == IF i >= 0 THEN i + 1 ELSE Len(list) + i + 1

\* [""] * n : the empty list when n <= 0
Blanks(n) == [k \in 1..n |-> ""]

\* the decimal literals int() accepts among the attribute values modelled
IntLiterals == {"-1", "0", "1", "2", "3", " 2 "}

IntValue(s) ==
    CASE s = "-1"  -> 0 - 1
      [] s = "0"   -> 0
      [] s = "1"   -> 1
      [] s = "2"   -> 2
      [] s = "3"   -> 3
      [] s = " 2 " -> 2
      [] OTHER     -> 0

\* int(cell.get(name, 1) or 1): an absent or empty attribute gives 1, a
\* decimal literal its value, anything else raises ValueError
SpanAttr(cell, name) ==
    IF name \notin DOMAIN cell.attrs THEN [raised |-> "", val |-> 1]
    ELSE IF cell.attrs[name] = "" THEN [raised |-> "", val |-> 1]
    ELSE IF cell.attrs[name] \in IntLiterals
         THEN [raised |-> "", val |-> IntValue(cell.attrs[name])]
         ELSE [raised |-> "ValueError", val |-> 0]

---------------------------------------------------------------------------
(* extract_cell_content *)

\* str.strip() on the text nodes modelled
strip(s) ==
    CASE s = " "   -> ""
      [] s = " x"  -> "x"
      [] s = "y "  -> "y"
      [] OTHER     -> s

\* " ".join(parts)
RECURSIVE JoinSpace(_)
JoinSpace(parts) ==
    IF Len(parts) = 0 THEN ""
    ELSE IF Len(parts) = 1 THEN parts[1]
    ELSE parts[1] \o " " \o JoinSpace(Tail(parts))

\* cell.get_text(strip=True): every text node stripped, empty ones skipped,
\* the rest concatenated without separator
RECURSIVE get_text(_)
get_text(strings) ==
    IF Len(strings) = 0 THEN ""
    ELSE strip(strings[1]) \o get_text(Tail(strings))

\* the title is preferred to the alt
ImageParts_TitleFirst(img) ==
    IF img.src # ""
    THEN IF img.title # ""
         THEN << "[IMG: " \o img.title \o "]" >>
         ELSE IF img.alt # "" /\ img.alt # "."
              THEN << "[IMG: " \o img.alt \o "]" >>
              ELSE << "[IMG]" >>
    ELSE << >>

\* the token one <img> appends to content_parts (none without a src)
ImageParts(img) ==
    IF img.src # ""
    THEN IF img.alt # "" /\ img.alt # "."
         THEN << "[IMG: " \o img.alt \o "]" >>
         ELSE IF img.title # ""
              THEN << "[IMG: " \o img.title \o "]" >>
              ELSE << "[IMG]" >>
    ELSE << >>

RECURSIVE AllImageParts(_)
AllImageParts(images) ==
    IF Len(images) = 0 THEN << >>
    ELSE ImageParts(images[1]) \o AllImageParts(Tail(images))

extract_cell_content(cell) ==
    LET text_content  == get_text(cell.strings)
        content_parts == AllImageParts(cell.imgs)
                           \o (IF text_content # "" THEN <<text_content>> ELSE << >>)
    IN  IF Len(content_parts) = 0 THEN "" ELSE JoinSpace(content_parts)

---------------------------------------------------------------------------
(* normalize_rows *)

\* the inner function next_free_col of normalize_rows; current_row[col] with
\* a col below -len raises IndexError
RECURSIVE next_free_col(_, _)
next_free_col(current_row, start_col) ==
    IF start_col < Len(current_row)
    THEN IF ~PyInRange(current_row, start_col)
         THEN [raised |-> "IndexError", col |-> start_col]
         ELSE IF current_row[PyPos(current_row, start_col)] # ""
              THEN next_free_col(current_row, start_col + 1)
              ELSE [raised |-> "", col |-> start_col]
    ELSE [raised |-> "", col |-> start_col]

\* while len(grid) <= index: grid.append([])
EnsureRow(grid, index) ==
    IF Len(grid) <= index
    THEN grid \o [k \in 1..(index + 1 - Len(grid)) |-> << >>]
    ELSE grid

\* one blank too many is appended
Pad_OneMore(row, n) == IF Len(row) < n THEN row \o Blanks(n + 1 - Len(row)) ELSE row

\* if len(row) < n: row.extend([""] * (n - len(row)))
Pad(row, n) == IF Len(row) < n THEN row \o Blanks(n - Len(row)) ELSE row

\* for c in range(c, stop): if target_row[c] == "": target_row[c] = content
RECURSIVE FillCols(_, _, _, _)
FillCols(target_row, c, stop, content) ==
    IF c >= stop THEN [raised |-> "", row |-> target_row]
    ELSE IF ~PyInRange(target_row, c)
         THEN [raised |-> "IndexError", row |-> target_row]
         ELSE LET p == PyPos(target_row, c)
              IN  FillCols(IF target_row[p] = ""
                           THEN [target_row EXCEPT ![p] = content]
                           ELSE target_row,
                           c + 1, stop, content)

\* for r_offset in range(r_offset, rowspan): pad the target row, fill it
RECURSIVE FillRows(_, _, _, _, _, _, _)
FillRows(grid, row_index, r_offset, rowspan, col_index, colspan, content) ==
    IF r_offset >= rowspan THEN [raised |-> "", grid |-> grid]
    ELSE LET target_row_index == row_index + r_offset
             g1 == EnsureRow(grid, target_row_index)
             target_row == Pad(g1[target_row_index + 1], col_index + colspan)
             f == FillCols(target_row, col_index, col_index + colspan, content)
         IN  IF f.raised # ""
             THEN [raised |-> f.raised, grid |-> g1]
             ELSE FillRows([g1 EXCEPT ![target_row_index + 1] = f.row],
                           row_index, r_offset + 1, rowspan,
                           col_index, colspan, content)

\* One pass of the loop over the cells of a row: the state st is
\* [raised, grid, col_index, placed]; placed logs, for every cell handled,
\* the source position, the spans read, the content and the column chosen.
PlaceCell(st, row_index, cell_no, cell) ==
    LET content == extract_cell_content(cell)
        cs == SpanAttr(cell, "colspan")
        rs == SpanAttr(cell, "rowspan")
    IN  IF cs.raised # "" THEN [st EXCEPT !.raised = cs.raised]
        ELSE IF rs.raised # "" THEN [st EXCEPT !.raised = rs.raised]
        ELSE
        LET colspan == cs.val
            rowspan == rs.val
            nf == next_free_col(st.grid[row_index + 1], st.col_index)
        IN  IF nf.raised # "" THEN [st EXCEPT !.raised = nf.raised]
            ELSE
            LET col_index == nf.col
                g1 == [st.grid EXCEPT ![row_index + 1] =
                          Pad(st.grid[row_index + 1], col_index + colspan)]
                fr == FillRows(g1, row_index, 0, rowspan, col_index, colspan, content)
            IN  [raised    |-> fr.raised,
                 grid      |-> fr.grid,
                 col_index |-> col_index + colspan,
                 placed    |-> Append(st.placed,
                                 [row |-> row_index, cell |-> cell_no,
                                  col |-> col_index, colspan |-> colspan,
                                  rowspan |-> rowspan, content |-> content])]

RECURSIVE PlaceCells(_, _, _, _)
PlaceCells(st, row_index, cells, k) ==
    IF k > Len(cells) \/ st.raised # "" THEN st
    ELSE PlaceCells(PlaceCell(st, row_index, k, cells[k]), row_index, cells, k + 1)

\* One pass of the loop over the rows
PlaceRow(st, row_index, tr) ==
    LET g1 == EnsureRow(st.grid, row_index)
        nf == next_free_col(g1[row_index + 1], 0)
    IN  PlaceCells([st EXCEPT !.grid = g1, !.col_index = nf.col], row_index, tr, 1)

RECURSIVE PlaceRows(_, _, _)
PlaceRows(st, tr_elements, row_index) ==
    IF row_index >= Len(tr_elements) \/ st.raised # "" THEN st
    ELSE PlaceRows(PlaceRow(st, row_index, tr_elements[row_index + 1]),
                   tr_elements, row_index + 1)

\* the run of normalize_rows with its log of placements
NormalizeRun(tr_elements) ==
    PlaceRows([raised |-> "", grid |-> << >>, col_index |-> 0, placed |-> << >>],
              tr_elements, 0)

normalize_rows(tr_elements) ==
    LET st == NormalizeRun(tr_elements)
    IN  [raised |-> st.raised, grid |-> IF st.raised = "" THEN st.grid ELSE << >>]

---------------------------------------------------------------------------
(* parse_html_table *)

\* position of the first section with the tag, 0 when there is none
RECURSIVE FindSection(_, _, _)
FindSection(sections, tag, k) ==
    IF k > Len(sections) THEN 0
    ELSE IF sections[k].tag = tag THEN k
    ELSE FindSection(sections, tag, k + 1)

\* table.find_all('tr') in document order; with skip_thead the rows whose
\* parent is a thead are left out
RECURSIVE AllTrs(_, _)
AllTrs(sections, skip_thead) ==
    IF Len(sections) = 0 THEN << >>
    ELSE (IF skip_thead /\ sections[1].tag = "thead" THEN << >> ELSE sections[1].trs)
           \o AllTrs(Tail(sections), skip_thead)

Returned(header, rows) == [raised |-> "", header |-> header, row |-> rows]

Raised(exc) == [raised |-> exc, header |-> << >>, row |-> << >>]

\* the tbody is not looked at
BodyTrs_IgnoresTbody(sections, tbody) == AllTrs(sections, TRUE)

\* the rows normalised as the body when a thead exists: those of the tbody
\* if there is one, otherwise every <tr> without a thead parent
BodyTrs(sections, tbody) ==
    IF tbody # 0 THEN sections[tbody].trs ELSE AllTrs(sections, TRUE)

\* the branch taken when the table has a thead
TheadParse(sections, thead, tbody) ==
    LET header_grid == normalize_rows(sections[thead].trs)
        body_grid == normalize_rows(BodyTrs(sections, tbody))
    IN  IF header_grid.raised # "" THEN Raised(header_grid.raised)
        ELSE IF body_grid.raised # "" THEN Raised(body_grid.raised)
        ELSE Returned(IF Len(header_grid.grid) > 0 THEN header_grid.grid[1] ELSE << >>,
                      (IF Len(header_grid.grid) > 1 THEN Tail(header_grid.grid) ELSE << >>)
                        \o body_grid.grid)

\* only the rows of the tbody are normalised when there is one
HeadlessParse_TbodyOnly(sections) ==
    LET tbody == FindSection(sections, "tbody", 1)
        grid == normalize_rows(IF tbody # 0 THEN sections[tbody].trs
                               ELSE AllTrs(sections, FALSE))
    IN  IF grid.raised # "" THEN Raised(grid.raised)
        ELSE IF Len(grid.grid) > 0
             THEN Returned(grid.grid[1], Tail(grid.grid))
             ELSE Returned(<< >>, << >>)

\* the header row is not taken off the rows
HeadlessParse_KeepsHeader(sections) ==
    LET grid == normalize_rows(AllTrs(sections, FALSE))
    IN  IF grid.raised # "" THEN Raised(grid.raised)
        ELSE IF Len(grid.grid) > 0
             THEN Returned(grid.grid[1], grid.grid)
             ELSE Returned(<< >>, << >>)

\* the branch taken when the table has no thead
HeadlessParse(sections) ==
    LET grid == normalize_rows(AllTrs(sections, FALSE))
    IN  IF grid.raised # "" THEN Raised(grid.raised)
        ELSE IF Len(grid.grid) > 0
             THEN Returned(grid.grid[1], Tail(grid.grid))
             ELSE Returned(<< >>, << >>)

\* what follows soup.find('table') once a table was found
ParseFound(sections) ==
    LET thead == FindSection(sections, "thead", 1)
        tbody == FindSection(sections, "tbody", 1)
    IN  IF thead # 0
        THEN TheadParse(sections, thead, tbody)
        ELSE HeadlessParse(sections)

\* without the check that a table was found
parse_html_table_unchecked(html_content) == ParseFound(html_content.sections)

parse_html_table(html_content) ==
    IF ~html_content.table THEN Returned(<< >>, << >>)
    ELSE ParseFound(html_content.sections)

---------------------------------------------------------------------------
(* The documents: the markup is written piece by piece, then parsed *)

\* the text of the cell at row r, cell k of section s: every cell has its own
CellName(s, r, k) == "s" \o ToString(s) \o "r" \o ToString(r) \o "c" \o ToString(k)

\* attribute dictionaries over colspan/rowspan with values in vals
AttrDicts(vals) == UNION {[D -> vals] : D \in SUBSET {"colspan", "rowspan"}}

TextCell(text, attrs) ==
    [attrs |-> attrs, imgs |-> << >>,
     strings |-> IF text = "" THEN << >> ELSE <<text>>]

\* a cell shape is [attrs, blank]; a row from the shapes of its cells
Named(attrs) == [attrs |-> attrs, blank |-> FALSE]

Blank(attrs) == [attrs |-> attrs, blank |-> TRUE]

RowOf(shape, s, r) ==
    [k \in 1..Len(shape) |->
        TextCell(IF shape[k].blank THEN "" ELSE CellName(s, r, k), shape[k].attrs)]

SectionOf(tag, shapes, s) ==
    [tag |-> tag, trs |-> [r \in 1..Len(shapes) |-> RowOf(shapes[r], s, r)]]

EmptyTable == [table |-> TRUE, sections |-> << >>]

\* the document with one more section
WithSection(doc, tag, shapes) ==
    [doc EXCEPT !.sections = Append(@, SectionOf(tag, shapes, Len(@) + 1))]

\* the document with one more <tr>, a direct child of <table>
WithRow(doc, shape) ==
    IF Len(doc.sections) = 0
    THEN [doc EXCEPT !.sections = << [tag |-> "", trs |-> << RowOf(shape, 1, 1) >>] >>]
    ELSE [doc EXCEPT !.sections[1].trs = Append(@, RowOf(shape, 1, Len(@) + 1))]

\* the markup of a document without its <table> element
Untabled(doc) == [doc EXCEPT !.table = FALSE]

RowCount(doc) == IF Len(doc.sections) = 0 THEN 0 ELSE Len(doc.sections[1].trs)

---------------------------------------------------------------------------
(* The state machine: a document is written, then parse_html_table is      *)
(* called on it once                                                       *)

Init ==
    /\ pc = "idle"
    /\ html = EmptyTable
    /\ result = [raised |-> "", header |-> << >>, row |-> << >>]
    /\ CrawlerIdle
    /\ CallsIdle
    /\ RunIdle

\* the call parse_html_table(doc)
Parse(doc) ==
    /\ pc = "idle"
    /\ html' = doc
    /\ result' = parse_html_table(doc)
    /\ pc' = "done"
    /\ UNCHANGED crawlerVars
    /\ UNCHANGED callVars
    /\ UNCHANGED runVars

ParseTable == Parse(html)

ParseNoTable == Parse(Untabled(html))

(* Sectioned documents: tables made of thead/tbody/tfoot sections *)
MaxSections == 3

Tags == {"thead", "tbody", "tfoot"}

\* rows of one and of two unmerged cells, and a row that opens two merges
RowW1 == << Named(<< >>) >>

RowW2 == << Named(<< >>), Named(<< >>) >>

RowM == << Named([rowspan |-> "2"]), Named([colspan |-> "2"]) >>

\* a row of two unmerged cells, the first without content
RowBW == << Blank(<< >>), Named(<< >>) >>

SectionRows ==
    {<< >>, <<RowW2>>, <<RowBW>>, <<RowW2, RowW1>>, <<RowM>>, <<RowM, RowW2>>}

WriteSection ==
    /\ pc = "idle"
    /\ Len(html.sections) < MaxSections
    /\ \E tag \in Tags, shapes \in SectionRows :
          html' = WithSection(html, tag, shapes)
    /\ UNCHANGED <<pc, result>>
    /\ UNCHANGED crawlerVars
    /\ UNCHANGED callVars
    /\ UNCHANGED runVars

Next == WriteSection \/ ParseTable \/ ParseNoTable

Spec == Init /\ [][Next]_vars

(* Grid documents: plain tables whose cells may merge and may be blank *)
MaxRows == 2

CellCounts == 0..2

GridCellShapes ==
    {Named(a) : a \in AttrDicts({"2"})} \cup {Blank(<< >>), Blank([rowspan |-> "2"])}

GridRowShapes == UNION {[1..n -> GridCellShapes] : n \in CellCounts}

WriteGridRow ==
    /\ pc = "idle"
    /\ RowCount(html) < MaxRows
    /\ \E shape \in GridRowShapes : html' = WithRow(html, shape)
    /\ UNCHANGED <<pc, result>>
    /\ UNCHANGED crawlerVars
    /\ UNCHANGED callVars
    /\ UNCHANGED runVars

NextGrid == WriteGridRow \/ ParseTable

SpecGrid == Init /\ [][NextGrid]_vars

(* Attribute documents: a first row of named cells whose colspan/rowspan  *)
(* attributes take well-formed and malformed values, then unmerged rows   *)
AttrValues == {"", "-1", "0", "2", "abc"}

AttrRowShapes == UNION {[1..n -> {Named(a) : a \in AttrDicts(AttrValues)}] : n \in CellCounts}

WriteAttrRow ==
    /\ pc = "idle"
    /\ RowCount(html) = 0
    /\ \E shape \in AttrRowShapes : html' = WithRow(html, shape)
    /\ UNCHANGED <<pc, result>>
    /\ UNCHANGED crawlerVars
    /\ UNCHANGED callVars
    /\ UNCHANGED runVars

WritePlainRow ==
    /\ pc = "idle"
    /\ RowCount(html) = 1
    /\ html' = WithRow(html, RowW2)
    /\ UNCHANGED <<pc, result>>
    /\ UNCHANGED crawlerVars
    /\ UNCHANGED callVars
    /\ UNCHANGED runVars

NextAttrs == WriteAttrRow \/ WritePlainRow \/ ParseTable

SpecAttrs == Init /\ [][NextAttrs]_vars

(* Cell documents: a table of one cell, whose <img> elements and text     *)
(* nodes are written one by one                                           *)
MaxImages == 2

MaxTexts == 2

\* img.get(name, '') gives '' for an absent attribute as for an empty one
Images == [src : {"", "a.png"}, alt : {"", ".", "A"}, title : {"", "T"}]

TextNodes == {" ", " x", "y "}

OneCellTable ==
    [table |-> TRUE,
     sections |-> << [tag |-> "",
                      trs |-> << << [attrs |-> << >>, imgs |-> << >>,
                                     strings |-> << >>] >> >>] >>]

TheCell(doc) == doc.sections[1].trs[1][1]

InitCell ==
    /\ pc = "idle"
    /\ html = OneCellTable
    /\ result = [raised |-> "", header |-> << >>, row |-> << >>]
    /\ CrawlerIdle
    /\ CallsIdle
    /\ RunIdle

WriteImage ==
    /\ pc = "idle"
    /\ Len(TheCell(html).imgs) < MaxImages
    /\ \E img \in Images :
          html' = [html EXCEPT !.sections[1].trs[1][1].imgs = Append(@, img)]
    /\ UNCHANGED <<pc, result>>
    /\ UNCHANGED crawlerVars
    /\ UNCHANGED callVars
    /\ UNCHANGED runVars

WriteText ==
    /\ pc = "idle"
    /\ Len(TheCell(html).strings) < MaxTexts
    /\ \E t \in TextNodes :
          html' = [html EXCEPT !.sections[1].trs[1][1].strings = Append(@, t)]
    /\ UNCHANGED <<pc, result>>
    /\ UNCHANGED crawlerVars
    /\ UNCHANGED callVars
    /\ UNCHANGED runVars

NextCell == WriteImage \/ WriteText \/ ParseTable

SpecCell == InitCell /\ [][NextCell]_vars

---------------------------------------------------------------------------
(* Claims *)

RECURSIVE Concat(_)
Concat(seqs) == IF Len(seqs) = 0 THEN << >> ELSE seqs[1] \o Concat(Tail(seqs))

\* the <tr> elements of the sections numbered in S, in document order
RowsIn(doc, S) ==
    Concat([s \in 1..Len(doc.sections) |->
               IF s \in S THEN doc.sections[s].trs ELSE << >>])

SectionsTagged(doc, tag) == {s \in 1..Len(doc.sections) : doc.sections[s].tag = tag}

First(S) == CHOOSE s \in S : \A t \in S : s <= t

\* every <tr> of the table
AllRows(doc) == RowsIn(doc, 1..Len(doc.sections))

\* the grid a headless result was split from
GridOf(res) == <<res.header>> \o res.row

\* (r, c) lies in the rectangle of placement p
InRect(p, r, c) ==
    /\ p.row <= r /\ r < p.row + p.rowspan
    /\ p.col <= c /\ c < p.col + p.colspan

\* grid holds content at the 0-based position (r, c)
Holds(grid, r, c, content) ==
    /\ r < Len(grid)
    /\ c < Len(grid[r + 1])
    /\ grid[r + 1][c + 1] = content

\* every position of the rectangle of the n-th placed cell holds the cell's
\* content, unless an earlier-placed cell's rectangle covers the position
RectangleHolds(grid, placed, n) ==
    \A i \in 0..(placed[n].rowspan - 1), j \in 0..(placed[n].colspan - 1) :
        LET r == placed[n].row + i
            c == placed[n].col + j
        IN  \/ Holds(grid, r, c, placed[n].content)
            \/ \E m \in 1..(n - 1) : InRect(placed[m], r, c)

AllCells(doc) ==
    UNION {UNION {{doc.sections[s].trs[r][k] : k \in 1..Len(doc.sections[s].trs[r])} :
                  r \in 1..Len(doc.sections[s].trs)} :
           s \in 1..Len(doc.sections)}

\* C1: after normalisation every position of the rectangle of every placed
\* cell holds that cell's content, unless the position was already filled by
\* an earlier-placed cell; whatever the content, the empty string included.
C1_MergedCellInvariant ==
    (pc = "done" /\ result.raised = "") =>
        LET placed == NormalizeRun(AllRows(html)).placed
        IN  \A n \in 1..Len(placed) : RectangleHolds(GridOf(result), placed, n)

\* C3: the grid normalize_rows produces is rectangular: all its rows have the
\* same length.
C3_Rectangular ==
    (pc = "done" /\ result.raised = "") =>
        \A r1, r2 \in 1..Len(GridOf(result)) :
            Len(GridOf(result)[r1]) = Len(GridOf(result)[r2])

\* the attribute dictionary with every value in from replaced by "1"
Replaced(attrs, from) ==
    [a \in DOMAIN attrs |-> IF attrs[a] \in from THEN "1" ELSE attrs[a]]

\* the document with the span values in from replaced by "1" in every cell
WithSpansReplaced(doc, from) ==
    [doc EXCEPT !.sections =
        [s \in 1..Len(@) |->
            [@[s] EXCEPT !.trs =
                [r \in 1..Len(@) |->
                    [k \in 1..Len(@[r]) |->
                        [@[r][k] EXCEPT !.attrs = Replaced(@, from)]]]]]]

SpanValues(doc) == UNION {{c.attrs[a] : a \in DOMAIN c.attrs} : c \in AllCells(doc)}

NonPositive == {"-1", "0"}

\* C4: a rowspan or colspan of 0 or below is clamped to 1: the call returns
\* what it returns on the document with those values replaced by 1, and
\* raises nothing.
C4_NonPositiveSpanClampedToOne ==
    (pc = "done" /\ "abc" \notin SpanValues(html)) =>
        /\ result.raised = ""
        /\ result = parse_html_table(WithSpansReplaced(html, NonPositive))

\* C5: the call never raises on an absent or non-numeric colspan/rowspan: the
\* value counts as 1 and a ParsedTable is returned.
C5_NonNumericSpanIsOne ==
    (pc = "done" /\ SpanValues(html) \cap NonPositive = {}) =>
        /\ result.raised = ""
        /\ result = parse_html_table(WithSpansReplaced(html, {"abc"}))

HasThead(doc) == SectionsTagged(doc, "thead") # {}

HasTbody(doc) == SectionsTagged(doc, "tbody") # {}

\* the rows of the first thead
TheadRows(doc) == RowsIn(doc, {First(SectionsTagged(doc, "thead"))})

\* the body rows: those of the first tbody if there is a tbody, otherwise
\* every <tr> that is not inside a thead
BodyRows(doc) ==
    IF HasTbody(doc)
    THEN RowsIn(doc, {First(SectionsTagged(doc, "tbody"))})
    ELSE RowsIn(doc, (1..Len(doc.sections)) \ SectionsTagged(doc, "thead"))

Empty == [raised |-> "", header |-> << >>, row |-> << >>]

\* C6: without a <table> element the call returns an empty header and empty
\* rows, and raises nothing.
C6_NoTableGivesEmpty ==
    (pc = "done" /\ ~html.table) => result = Empty

\* C6 witness: markup with rows but no <table> was parsed
C6_Witness == pc = "done" /\ ~html.table /\ Len(AllRows(html)) >= 2

\* C7: with a thead, header is the first row of the normalised thead grid ([]
\* if that grid is empty) and rows is the rest of the thead grid followed by
\* the normalised body rows; merges inside the thead are expanded first.
C7_TheadSplit ==
    (pc = "done" /\ html.table /\ HasThead(html)) =>
        LET head == normalize_rows(TheadRows(html)).grid
            body == normalize_rows(BodyRows(html)).grid
        IN  /\ result.raised = ""
            /\ result.header = IF Len(head) = 0 THEN << >> ELSE head[1]
            /\ result.row = SubSeq(head, 2, Len(head)) \o body

\* C7 witness: a two-row thead with a rowspan and a colspan, a tbody and a
\* further section with rows; the merges show in header and in the first row
C7_Witness ==
    /\ pc = "done" /\ html.table /\ HasThead(html) /\ HasTbody(html)
    /\ Len(html.sections) = 3
    /\ html.sections[1].tag = "thead" /\ Len(html.sections[1].trs) = 2
    /\ html.sections[2].tag = "tfoot" /\ Len(html.sections[2].trs) > 0
    /\ html.sections[3].tag = "tbody" /\ Len(html.sections[3].trs) = 2
    /\ Len(result.header) = 3 /\ result.header[2] = result.header[3]
    /\ Len(result.row) = 3 /\ Len(result.row[1]) = 3
    /\ result.row[1][1] = result.header[1]

\* C8: without a thead all <tr> are normalised into one grid, header is its
\* row 0 and rows are its rows 1..end; no rows give header = [] and rows = [].
C8_HeadlessSplit ==
    (pc = "done" /\ html.table /\ ~HasThead(html)) =>
        LET grid == normalize_rows(AllRows(html)).grid
        IN  /\ result.raised = ""
            /\ result.header = IF Len(grid) = 0 THEN << >> ELSE grid[1]
            /\ result.row = SubSeq(grid, 2, Len(grid))

\* C8 witness: a headless table of several sections, one of them a tbody,
\* with three rows or more
C8_Witness ==
    /\ pc = "done" /\ html.table /\ ~HasThead(html) /\ HasTbody(html)
    /\ \E s \in 1..Len(html.sections) :
          html.sections[s].tag # "tbody" /\ Len(html.sections[s].trs) > 0
    /\ Len(result.row) >= 2

\* the contents of the cells of the rows, row by row
Contents(trs) ==
    [r \in 1..Len(trs) |-> [k \in 1..Len(trs[r]) |-> extract_cell_content(trs[r][k])]]

\* no cell of the table is merged: rowspan and colspan are absent or 1
Unmerged(doc) ==
    \A c \in AllCells(doc) : \A a \in DOMAIN c.attrs : c.attrs[a] = "1"

\* the result is the literal row-major matrix of the table's cells
IsLiteralMatrix(doc, res) ==
    LET m == Contents(AllRows(doc))
    IN  /\ res.raised = ""
        /\ res.header = IF Len(m) = 0 THEN << >> ELSE m[1]
        /\ res.row = SubSeq(m, 2, Len(m))

\* C2 as stated: for every table without merged cells the call returns the
\* literal row-major matrix of the cell contents, header the first row and
\* rows the remaining rows in source order.
C2_UnmergedIsLiteralMatrix ==
    (pc = "done" /\ html.table /\ Unmerged(html)) => IsLiteralMatrix(html, result)

\* when the table has a thead: the first thead has a row, no row comes before
\* it, and every other row lies in the first tbody or, without a tbody,
\* outside any thead
RowsWhereParserLooks(doc) ==
    HasThead(doc) =>
        LET t == First(SectionsTagged(doc, "thead"))
        IN  /\ Len(doc.sections[t].trs) > 0
            /\ \A s \in (1..Len(doc.sections)) \ {t} :
                  Len(doc.sections[s].trs) > 0 =>
                      /\ s > t
                      /\ IF HasTbody(doc)
                         THEN s = First(SectionsTagged(doc, "tbody"))
                         ELSE doc.sections[s].tag # "thead"

\* C2 amended: for every table without merged cells whose rows are where the
\* parser looks (see RowsWhereParserLooks) the call returns the literal
\* row-major matrix of the cell contents, header the first row and rows the
\* remaining rows in source order.
C2_UnmergedIsLiteralMatrixAmended ==
    (pc = "done" /\ html.table /\ Unmerged(html) /\ RowsWhereParserLooks(html)) =>
        IsLiteralMatrix(html, result)

\* C2 witness: an unmerged table with a two-row thead and a tbody, one cell
\* without content, short rows kept short
C2_Witness ==
    /\ pc = "done" /\ html.table /\ Unmerged(html) /\ RowsWhereParserLooks(html)
    /\ HasThead(html) /\ HasTbody(html)
    /\ Len(result.header) = 2 /\ Len(result.row) = 2
    /\ Len(result.row[1]) = 1 /\ result.row[2][1] = ""

\* the table rebuilt from a result: one <tr> per grid row, header first, one
\* unmerged cell per entry
Rebuilt(res) ==
    [table |-> TRUE,
     sections |-> << [tag |-> "",
                      trs |-> [r \in 1..Len(GridOf(res)) |->
                                 [k \in 1..Len(GridOf(res)[r]) |->
                                     TextCell(GridOf(res)[r][k], << >>)]]] >>]

\* C9: parsing the table rebuilt from a returned ParsedTable gives the same
\* header and rows again.
C9_ReparseIsIdentity ==
    (pc = "done" /\ result.raised = "") => parse_html_table(Rebuilt(result)) = result

\* C9 witness: the result of a table with a merged thead and a body row
\* whose first entry is empty
C9_Witness ==
    /\ pc = "done" /\ html.table /\ result.raised = ""
    /\ Len(result.header) = 3 /\ result.header[2] = result.header[3]
    /\ Len(result.row) >= 2
    /\ \E r \in 1..Len(result.row) : Len(result.row[r]) = 2 /\ result.row[r][1] = ""

RECURSIVE SpaceJoined(_)
SpaceJoined(parts) ==
    IF Len(parts) = 0 THEN ""
    ELSE IF Len(parts) = 1 THEN parts[1]
    ELSE SpaceJoined(SubSeq(parts, 1, Len(parts) - 1)) \o " " \o parts[Len(parts)]

Token(label) == IF label = "" THEN "[IMG]" ELSE "[IMG: " \o label \o "]"

\* the content of a cell whose images give the tokens with these labels
ContentOf(labels, text) ==
    SpaceJoined([k \in 1..Len(labels) |-> Token(labels[k])]
                   \o (IF text = "" THEN << >> ELSE <<text>>))

\* the label of an image as C10 states it: its alt, else its title
StatedLabel(img) == IF img.alt # "" THEN img.alt ELSE img.title

\* C10 as stated: every image of the cell contributes one token, with its alt
\* or title when present and bare when neither is; tokens and text are
\* joined by single spaces; no image and no text give the empty string.
C10_EveryImageOneToken ==
    pc = "done" =>
        /\ result.raised = ""
        /\ result.header =
              << ContentOf([k \in 1..Len(TheCell(html).imgs) |->
                               StatedLabel(TheCell(html).imgs[k])],
                           get_text(TheCell(html).strings)) >>

HasSrc(img) == img.src # ""

\* the label of an image as the code reads it: its alt unless empty or ".",
\* else its title
ReadLabel(img) == IF img.alt # "" /\ img.alt # "." THEN img.alt ELSE img.title

\* C10 amended: every image with a non-empty src contributes one token,
\* labelled with its alt when the alt is non-empty and not ".", otherwise
\* with its title when that is non-empty, and bare otherwise; an image
\* without src contributes nothing; tokens and text are joined by single
\* spaces; no token and no text give the empty string.
C10_EverySourcedImageOneToken ==
    pc = "done" =>
        LET sourced == SelectSeq(TheCell(html).imgs, HasSrc)
        IN  /\ result.raised = ""
            /\ result.header =
                  << ContentOf([k \in 1..Len(sourced) |-> ReadLabel(sourced[k])],
                               get_text(TheCell(html).strings)) >>

\* C10 witness: an image without src, an image whose alt is "." and whose
\* title is used, and two text nodes
C10_Witness ==
    /\ pc = "done"
    /\ Len(TheCell(html).imgs) = 2
    /\ TheCell(html).imgs[1].src = ""
    /\ TheCell(html).imgs[2] = [src |-> "a.png", alt |-> ".", title |-> "T"]
    /\ TheCell(html).strings = <<" x", "y ">>
    /\ result.header = << "[IMG: T] xy" >>

---------------------------------------------------------------------------
(* Character-level text: str methods and the regular expressions of the   *)
(* crawler (src/incheon_airport_crawler.py)                                *)

\* \d of the re module, on the characters the model writes
Digits == {"0", "1", "2", "3", "4", "5", "6", "7", "8", "9"}

\* \s of the re module and the characters str.strip() removes
Whitespace == {" ", "\n", "\t"}

\* the character class [.!?] of the sentence splitter
Terminators == {".", "!", "?"}

RECURSIVE LStrip(_)
LStrip(s) ==
    IF s # << >> /\ Head(s) \in Whitespace THEN LStrip(Tail(s)) ELSE s

RECURSIVE RStrip(_)
RStrip(s) ==
    IF s # << >> /\ s[Len(s)] \in Whitespace
    THEN RStrip(SubSeq(s, 1, Len(s) - 1))
    ELSE s

\* str.strip()
Strip(s) == RStrip(LStrip(s))

\* re.sub(r'(\d+)X', r'\1Y', s): an X straight after a digit becomes Y
SubAfterDigit(s, X, Y) ==
    [i \in 1..Len(s) |->
        IF s[i] = X /\ i > 1 /\ s[i - 1] \in Digits THEN Y ELSE s[i]]

\* re.split(r'[seps]+', s) without the empty pieces, which the caller
\* drops: the maximal runs of characters outside seps, left to right
RECURSIVE Pieces(_, _, _)
Pieces(s, seps, piece) ==
    IF s = << >> THEN (IF piece = << >> THEN << >> ELSE <<piece>>)
    ELSE IF Head(s) \in seps
         THEN (IF piece = << >> THEN << >> ELSE <<piece>>)
              \o Pieces(Tail(s), seps, << >>)
         ELSE Pieces(Tail(s), seps, Append(piece, Head(s)))

\* the blank pieces are dropped, the others kept as they were cut
StrippedNonEmpty_Uncut(l) == SelectSeq(l, LAMBDA piece : Strip(piece) # << >>)

\* [s.strip() for s in sentences if s.strip()]
RECURSIVE StrippedNonEmpty(_)
StrippedNonEmpty(l) ==
    IF l = << >> THEN << >>
    ELSE (IF Strip(Head(l)) = << >> THEN << >> ELSE <<Strip(Head(l))>>)
         \o StrippedNonEmpty(Tail(l))

\* the loop restoring the periods of numbers
Restored(l) == [i \in 1..Len(l) |-> SubAfterDigit(l[i], "@", ".")]

split_sentences_EmptyList(t) ==
    IF t = << >> THEN None
    ELSE List(Restored(StrippedNonEmpty(
                  Pieces(SubAfterDigit(t, ".", "@"), Terminators, << >>))))

\* split_sentences(text), the inner function of parse_body_structure
split_sentences(t) ==
    IF t = << >> THEN None
    ELSE LET temp_text == SubAfterDigit(t, ".", "@")
             pieces == Pieces(temp_text, Terminators, << >>)
             kept == StrippedNonEmpty(pieces)
             restored_sentences == Restored(kept)
         IN  IF restored_sentences = << >> THEN None
             ELSE List(restored_sentences)

(* Texts written one character at a time, then split into sentences *)

MaxChars == 5

Alphabet == {"a", "7", ".", "!", "?", "@", " "}

TypeChar ==
    /\ pc = "idle"
    /\ Len(split_text) < MaxChars
    /\ \E c \in Alphabet : split_text' = Append(split_text, c)
    /\ UNCHANGED <<pc, html, result, sentences, main_content_node,
                   body_structure, tables>>
    /\ UNCHANGED callVars
    /\ UNCHANGED runVars

\* the call split_sentences(text)
SplitSentences ==
    /\ pc = "idle"
    /\ sentences' = split_sentences(split_text)
    /\ pc' = "done"
    /\ UNCHANGED <<html, result, split_text, main_content_node,
                   body_structure, tables>>
    /\ UNCHANGED callVars
    /\ UNCHANGED runVars

NextSplit == TypeChar \/ SplitSentences

SpecSplit == Init /\ [][NextSplit]_vars

---------------------------------------------------------------------------
(* The content node of an article.  Its children, in document order, are  *)
(* text nodes [kind "text"], candidate tags [kind "tag"] (a span, p or    *)
(* div with a style attribute, an align attribute and items: its own text *)
(* nodes and its nested <span> elements) and tables [kind "table"].  A    *)
(* style attribute is the sequence of its lexical tokens, "" stands for   *)
(* an attribute that is absent.                                           *)

TextNode(t) == [kind |-> "text", text |-> t]

TagNode(style, align, items) ==
    [kind |-> "tag", style |-> style, align |-> align, items |-> items]

TableNode(doc) == [kind |-> "table", table |-> doc]

\* an item of a tag: a text node of its own, or a nested <span>
OwnText(t) == [span |-> FALSE, style |-> << >>, align |-> "", text |-> t]

SpanItem(style, align, t) ==
    [span |-> TRUE, style |-> style, align |-> align, text |-> t]

\* str.lower() on the tokens the styles and attributes are written with
Lower(tok) ==
    CASE tok = "COLOR"      -> "color"
      [] tok = "Text-Align" -> "text-align"
      [] tok = "Center"     -> "center"
      [] tok = "CENTER"     -> "center"
      [] OTHER              -> tok

LowerAll(toks) == [i \in 1..Len(toks) |-> Lower(toks[i])]

\* needle in hay, on token sequences
In(needle, hay) ==
    \E i \in 0..(Len(hay) - Len(needle)) :
        SubSeq(hay, i + 1, i + Len(needle)) = needle

\* ' '.join(all_styles)
RECURSIVE JoinStyles(_)
JoinStyles(all_styles) ==
    IF Len(all_styles) = 0 THEN << >>
    ELSE IF Len(all_styles) = 1 THEN all_styles[1]
    ELSE all_styles[1] \o <<" ">> \o JoinStyles(Tail(all_styles))

\* the characters of the cell texts written in the tables of a node
CellNameChars(s, r, k) == <<"s", ToString(s), "r", ToString(r), "c", ToString(k)>>

CellTextChars == {CellNameChars(1, r, k) : r \in 1..3, k \in 1..3}

RECURSIVE Str(_)
Str(chars) == IF chars = << >> THEN "" ELSE Head(chars) \o Str(Tail(chars))

Chars(s) == IF s = "" THEN << >> ELSE CHOOSE c \in CellTextChars : Str(c) = s

\* tag.get_text(strip=True) of a candidate tag: the stripped text nodes in
\* document order, the empty ones left out
RECURSIVE ItemsText(_)
ItemsText(items) ==
    IF Len(items) = 0 THEN << >>
    ELSE Strip(items[1].text) \o ItemsText(Tail(items))

RECURSIVE RowText(_)
RowText(tr) ==
    IF Len(tr) = 0 THEN << >>
    ELSE Chars(get_text(tr[1].strings)) \o RowText(Tail(tr))

RECURSIVE RowsText(_)
RowsText(trs) ==
    IF Len(trs) = 0 THEN << >> ELSE RowText(trs[1]) \o RowsText(Tail(trs))

\* table.get_text(strip=True)
TableText(doc) == RowsText(AllTrs(doc.sections, FALSE))

\* content_node.get_text(strip=True)
RECURSIVE NodeText(_)
NodeText(children) ==
    IF Len(children) = 0 THEN << >>
    ELSE (CASE children[1].kind = "text"  -> Strip(children[1].text)
            [] children[1].kind = "tag"   -> ItemsText(children[1].items)
            [] children[1].kind = "table" -> TableText(children[1].table))
         \o NodeText(Tail(children))

\* content_node.find_all('table')
RECURSIVE FindTables(_)
FindTables(children) ==
    IF Len(children) = 0 THEN << >>
    ELSE (IF children[1].kind = "table" THEN <<children[1].table>> ELSE << >>)
         \o FindTables(Tail(children))

\* table_positions: the tables whose text is not empty
RECURSIVE TablePositions(_)
TablePositions(found) ==
    IF Len(found) = 0 THEN << >>
    ELSE (IF TableText(found[1]) # << >> THEN <<found[1]>> ELSE << >>)
         \o TablePositions(Tail(found))

\* the nested spans of a tag, each a candidate of its own
RECURSIVE SpansOf(_)
SpansOf(items) ==
    IF Len(items) = 0 THEN << >>
    ELSE (IF items[1].span THEN <<items[1]>> ELSE << >>) \o SpansOf(Tail(items))

\* what the loop reads of one tag of find_all(['span', 'p', 'div']): its
\* text, tag.get('style', '') followed by the styles of its nested spans,
\* and the align attributes that str(tag) shows
CandidateOfTag(tag) ==
    LET spans == SpansOf(tag.items)
    IN  [text |-> ItemsText(tag.items),
         all_styles |-> <<tag.style>> \o [i \in 1..Len(spans) |-> spans[i].style],
         aligns |-> {tag.align} \cup {spans[i].align : i \in 1..Len(spans)}]

\* content_node.find_all(['span', 'p', 'div']) in document order
RECURSIVE Candidates(_)
Candidates(children) ==
    IF Len(children) = 0 THEN << >>
    ELSE (IF children[1].kind = "tag"
          THEN LET spans == SpansOf(children[1].items)
               IN  <<CandidateOfTag(children[1])>>
                   \o [i \in 1..Len(spans) |->
                         [text |-> Strip(spans[i].text),
                          all_styles |-> <<spans[i].style>>,
                          aligns |-> {spans[i].align}]]
          ELSE << >>)
         \o Candidates(Tail(children))

has_color_style(cand) ==
    LET combined_style == LowerAll(JoinStyles(cand.all_styles))
    IN  In(<<"color", ":">>, combined_style) \/ In(<<"color", "=">>, combined_style)

has_center_align_StyleOnly(cand) ==
    LET combined_style == LowerAll(JoinStyles(cand.all_styles))
    IN  \/ In(<<"text-align", ":", " ", "center">>, combined_style)
        \/ In(<<"text-align", ":", "center">>, combined_style)
        \/ In(<<"text-align", ":", " ", "center", ";">>, combined_style)

\* the align attribute is read in str(tag), which quotes every value
has_center_align(cand) ==
    LET combined_style == LowerAll(JoinStyles(cand.all_styles))
    IN  \/ In(<<"text-align", ":", " ", "center">>, combined_style)
        \/ In(<<"text-align", ":", "center">>, combined_style)
        \/ In(<<"text-align", ":", " ", "center", ";">>, combined_style)
        \/ \E a \in cand.aligns : Lower(a) = "center"

Logged(st, cand, class) ==
    [st EXCEPT !.log = Append(@, [text |-> cand.text, class |-> class])]

\* a text is classified again each time it is met
ClassifyTag_NoDedupe(st, cand) ==
    IF cand.text = << >> THEN Logged(st, cand, "skipped")
    ELSE IF has_color_style(cand) /\ has_center_align(cand)
    THEN [Logged(st, cand, "header") EXCEPT
            !.header_elements = Append(@, cand.text),
            !.processed_texts = @ \cup {cand.text}]
    ELSE IF has_center_align(cand) /\ ~has_color_style(cand)
    THEN [Logged(st, cand, "sub-header") EXCEPT
            !.sub_header_elements = Append(@, cand.text),
            !.processed_texts = @ \cup {cand.text}]
    ELSE Logged(st, cand, "none")

\* one pass of the classification loop
ClassifyTag(st, cand) ==
    IF cand.text = << >> \/ cand.text \in st.processed_texts
    THEN Logged(st, cand, "skipped")
    ELSE IF has_color_style(cand) /\ has_center_align(cand)
    THEN [Logged(st, cand, "header") EXCEPT
            !.header_elements = Append(@, cand.text),
            !.processed_texts = @ \cup {cand.text}]
    ELSE IF has_center_align(cand) /\ ~has_color_style(cand)
    THEN [Logged(st, cand, "sub-header") EXCEPT
            !.sub_header_elements = Append(@, cand.text),
            !.processed_texts = @ \cup {cand.text}]
    ELSE Logged(st, cand, "none")

RECURSIVE ClassifyTags(_, _)
ClassifyTags(st, cands) ==
    IF Len(cands) = 0 THEN st
    ELSE ClassifyTags(ClassifyTag(st, cands[1]), Tail(cands))

\* the classification loop over the candidates of a node
Classified(content_node) ==
    ClassifyTags(NoneClassified, Candidates(content_node.children))

Elements(l) == {l[i] : i \in 1..Len(l)}

\* header_texts and sub_header_texts, the sets the loop fills
header_texts(content_node) == Elements(Classified(content_node).header_elements)

sub_header_texts(content_node) ==
    Elements(Classified(content_node).sub_header_elements)

\* ' '.join(elements) on texts
RECURSIVE JoinTexts(_)
JoinTexts(elements) ==
    IF Len(elements) = 0 THEN << >>
    ELSE IF Len(elements) = 1 THEN elements[1]
    ELSE elements[1] \o <<" ">> \o JoinTexts(Tail(elements))

\* s.replace(old, ""), old not empty: the occurrences found from the left,
\* none overlapping another
RECURSIVE Removed(_, _)
Removed(s, old) ==
    IF s = << >> THEN << >>
    ELSE IF Len(old) <= Len(s) /\ SubSeq(s, 1, Len(old)) = old
         THEN Removed(SubSeq(s, Len(old) + 1, Len(s)), old)
    ELSE <<Head(s)>> \o Removed(Tail(s), old)

\* the removal loop over a set, in the order the set is iterated
RECURSIVE RemovedEach(_, _)
RemovedEach(s, order) ==
    IF Len(order) = 0 THEN s
    ELSE RemovedEach(Removed(s, order[1]), Tail(order))

\* the orders a set can be iterated in: CPython's order of a set of strings
\* follows their hashes, which are salted anew in every interpreter
Orders(S) ==
    {order \in [1..Cardinality(S) -> S] :
        \A i, j \in 1..Cardinality(S) : i # j => order[i] # order[j]}

\* re.sub(r'\s+', ' ', s)
RECURSIVE Collapsed(_)
Collapsed(s) ==
    IF s = << >> THEN << >>
    ELSE IF Head(s) \in Whitespace
         THEN <<" ">> \o Collapsed(LStrip(s))
         ELSE <<Head(s)>> \o Collapsed(Tail(s))

\* f"{{table{k}}}"
Placeholder(k) == <<"{", "t", "a", "b", "l", "e", ToString(k), "}">>

\* for i in range(content_count): the sentence, then its placeholder; the
\* first branch gives a placeholder only while i < table_count
RECURSIVE Paired(_, _, _)
Paired(content_sentences, table_count, i) ==
    IF i >= Len(content_sentences) THEN << >>
    ELSE <<content_sentences[i + 1]>>
         \o (IF i < table_count THEN <<Placeholder(i + 1)>> ELSE << >>)
         \o Paired(content_sentences, table_count, i + 1)

RECURSIVE PairedAll(_, _)
PairedAll(content_sentences, i) ==
    IF i >= Len(content_sentences) THEN << >>
    ELSE <<content_sentences[i + 1], Placeholder(i + 1)>>
         \o PairedAll(content_sentences, i + 1)

\* the interleaving of sentences and table placeholders
Interleaved(content_sentences, table_count) ==
    LET content_count == Len(content_sentences)
    IN  IF table_count <= content_count
        THEN Paired(content_sentences, table_count, 0)
        ELSE PairedAll(content_sentences, 0)
             \o [j \in 1..(table_count - content_count) |->
                    Placeholder(content_count + (j - 1) + 1)]

BodyOf(header, sub_header, content) ==
    [raised |-> "", header |-> header, sub_header |-> sub_header,
     content |-> content]

\* content_text as split_sentences receives it: the two removal loops over
\* full_text, then re.sub(r'\s+', ' ', content_text).strip()
ContentText(content_node, header_order, sub_header_order) ==
    LET full_text == NodeText(content_node.children)
        removed == RemovedEach(RemovedEach(full_text, header_order),
                               sub_header_order)
    IN  Strip(Collapsed(removed))

\* what parse_body_structure does after the classification loop, st being
\* what the loop left
StructureFrom(content_node, st, header_order, sub_header_order) ==
    LET table_positions == TablePositions(FindTables(content_node.children))
        header_combined == JoinTexts(st.header_elements)
        sub_header_combined == JoinTexts(st.sub_header_elements)
        content_text == ContentText(content_node, header_order, sub_header_order)
        content_sentences == split_sentences(content_text)
    IN  BodyOf(split_sentences(header_combined),
               split_sentences(sub_header_combined),
               IF ~content_sentences.none /\ Len(table_positions) > 0
               THEN List(Interleaved(content_sentences.list, Len(table_positions)))
               ELSE content_sentences)

\* the body of parse_body_structure after its guard
Structure(content_node, header_order, sub_header_order) ==
    StructureFrom(content_node, Classified(content_node),
                  header_order, sub_header_order)

\* the guard is missing: None has no find_all
parse_body_structure_Unguarded(content_node, header_order, sub_header_order) ==
    IF ~content_node.present
    THEN [raised |-> "AttributeError", header |-> None, sub_header |-> None,
          content |-> None]
    ELSE Structure(content_node, header_order, sub_header_order)

\* parse_body_structure(content_node); the two orders are those in which
\* this call iterates header_texts and sub_header_texts
parse_body_structure(content_node, header_order, sub_header_order) ==
    IF ~content_node.present THEN BodyOf(None, None, None)
    ELSE Structure(content_node, header_order, sub_header_order)

\* the rows of one table as parse_tables reads them: the text of every cell
\* of every <tr>, a <tr> without cells left out
RECURSIVE TableData(_)
TableData(trs) ==
    IF Len(trs) = 0 THEN << >>
    ELSE (IF Len(trs[1]) > 0
          THEN << [k \in 1..Len(trs[1]) |-> get_text(trs[1][k].strings)] >>
          ELSE << >>)
         \o TableData(Tail(trs))

\* parse_tables(content_node)
parse_tables(content_node) ==
    IF ~content_node.present THEN [raised |-> "", list |-> << >>]
    ELSE LET found == FindTables(content_node.children)
         IN  [raised |-> "",
              list |-> [i \in 1..Len(found) |->
                          [table_html |-> found[i],
                           table_data |-> TableData(AllTrs(found[i].sections, FALSE))]]]

(* Article bodies: the children of the content node are written one by    *)
(* one, then parse_article calls parse_body_structure and parse_tables    *)

\* the node was found: an element without children yet
FindNode ==
    /\ pc = "idle"
    /\ ~main_content_node.present
    /\ main_content_node' = [present |-> TRUE, children |-> << >>]
    /\ UNCHANGED <<pc, html, result, split_text, sentences, body_structure,
                   tables>>
    /\ UNCHANGED callVars
    /\ UNCHANGED runVars

AddChild(child) ==
    /\ pc = "idle"
    /\ main_content_node.present
    /\ main_content_node' =
          [main_content_node EXCEPT !.children = Append(@, child)]
    /\ UNCHANGED <<pc, html, result, split_text, sentences, body_structure,
                   tables>>
    /\ UNCHANGED callVars
    /\ UNCHANGED runVars

\* body_structure = parse_body_structure(main_content_node) and
\* tables = parse_tables(main_content_node)
ParseArticleBody ==
    /\ pc = "idle"
    /\ \E header_order \in Orders(header_texts(main_content_node)),
          sub_header_order \in Orders(sub_header_texts(main_content_node)) :
          body_structure' = parse_body_structure(main_content_node,
                                                 header_order, sub_header_order)
    /\ tables' = parse_tables(main_content_node)
    /\ pc' = "done"
    /\ UNCHANGED <<html, result, split_text, sentences, main_content_node>>
    /\ UNCHANGED callVars
    /\ UNCHANGED runVars

MaxChildren == 3

\* a word, a word that begins with it, and two sentences with white space
BodyTexts == {<<"a">>, <<"a", "b">>, <<" ", "b", ".", "\n", " ", "a">>}

ColorCenter == <<"color", ":", "red", ";", "text-align", ":", "center">>

CenterOnly == <<"text-align", ":", " ", "center", ";">>

\* a table without text, a table of one cell, a table with a merged cell
BodyTables ==
    {WithRow(EmptyTable, << Blank(<< >>) >>),
     WithRow(EmptyTable, RowW1),
     WithRow(WithRow(EmptyTable, << Named([colspan |-> "2"]) >>), RowW2)}

AddText ==
    /\ Len(main_content_node.children) < MaxChildren
    /\ \E t \in BodyTexts : AddChild(TextNode(t))

\* the text of the table of one cell, as a tag above it would repeat it
TableCaption == CellNameChars(1, 1, 1)

AddTag ==
    /\ Len(main_content_node.children) < MaxChildren
    /\ \E style \in {ColorCenter, CenterOnly}, t \in BodyTexts \cup {TableCaption} :
          AddChild(TagNode(style, "", <<OwnText(t)>>))

AddTable ==
    /\ Len(main_content_node.children) < MaxChildren
    /\ \E doc \in BodyTables : AddChild(TableNode(doc))

NextBody == FindNode \/ AddText \/ AddTag \/ AddTable \/ ParseArticleBody

SpecBody == Init /\ [][NextBody]_vars

(* Styled tags: the styles and align attributes vary, the texts are few *)

\* how many tags a node may have when one more is written
TagCounts == 0..1

Styles ==
    {<< >>,
     <<"color", ":", "red">>,
     <<"text-align", ":", "center">>,
     <<"COLOR", ":", "red", ";", " ", "Text-Align", ":", " ", "Center", ";">>}

Aligns == {"", "CENTER"}

\* a tag with at most one text node of its own
AddStyledTag ==
    /\ Len(main_content_node.children) \in TagCounts
    /\ \E style \in Styles, align \in Aligns, own \in {<< >>, <<OwnText(<<"a">>)>>} :
          AddChild(TagNode(style, align, own))

\* a <span> nested in the tag written last
AddSpan ==
    /\ pc = "idle"
    /\ main_content_node.present
    /\ Len(main_content_node.children) > 0
    /\ LET last == Len(main_content_node.children)
       IN  /\ SpansOf(main_content_node.children[last].items) = << >>
           /\ \E style \in Styles, align \in Aligns :
                 main_content_node' =
                    [main_content_node EXCEPT !.children[last].items =
                        Append(@, SpanItem(style, align, <<"b">>))]
    /\ UNCHANGED <<pc, html, result, split_text, sentences, body_structure,
                   tables>>
    /\ UNCHANGED callVars
    /\ UNCHANGED runVars

NextClassify == FindNode \/ AddStyledTag \/ AddSpan \/ ParseArticleBody

SpecClassify == Init /\ [][NextClassify]_vars

---------------------------------------------------------------------------
(* Claims on the body classifier *)

AllNull(b) == b.header = None /\ b.sub_header = None /\ b.content = None

\* C11: parse_body_structure on an absent content node returns header,
\* sub-header and content all null, and a node without children raises no
\* error
C11_AbsentNodeGivesNulls ==
    pc = "done" =>
        /\ ~main_content_node.present =>
              body_structure.raised = "" /\ AllNull(body_structure)
        /\ (main_content_node.present /\ main_content_node.children = << >>) =>
              body_structure.raised = ""

\* the call was made on an absent node
C11_Witness ==
    /\ pc = "done"
    /\ ~main_content_node.present
    /\ body_structure.raised = ""
    /\ AllNull(body_structure)

\* a style declares a colour: the property color followed by : or =
DeclaresColor(style) ==
    \E i \in 1..(Len(style) - 1) :
        Lower(style[i]) = "color" /\ style[i + 1] \in {":", "="}

\* a style centres the text: the property text-align with the value center
CentersText(style) ==
    \E i \in 1..(Len(style) - 2) :
        /\ Lower(style[i]) = "text-align"
        /\ style[i + 1] = ":"
        /\ LET value == LStrip(SubSeq(style, i + 2, Len(style)))
           IN  value # << >> /\ Lower(Head(value)) = "center"

\* the class the stated rule gives a candidate, from the styles of the tag
\* and of its nested spans and from the align attributes
RuleClass(cand) ==
    LET coloured == \E i \in 1..Len(cand.all_styles) : DeclaresColor(cand.all_styles[i])
        centred == \/ \E i \in 1..Len(cand.all_styles) : CentersText(cand.all_styles[i])
                   \/ \E a \in cand.aligns : Lower(a) = "center"
    IN  IF coloured /\ centred THEN "header"
        ELSE IF centred THEN "sub-header"
        ELSE "none"

\* the texts of the candidates with non-empty text that the rule puts in
\* a class, in document order
RECURSIVE RuleTexts(_, _)
RuleTexts(cands, class) ==
    IF Len(cands) = 0 THEN << >>
    ELSE (IF cands[1].text # << >> /\ RuleClass(cands[1]) = class
          THEN <<cands[1].text>> ELSE << >>)
         \o RuleTexts(Tail(cands), class)

\* the same, a candidate being passed over when its text is that of an
\* earlier candidate the rule made header or sub-header
RECURSIVE RuleTextsOnce(_, _, _)
RuleTextsOnce(cands, class, seen) ==
    IF Len(cands) = 0 THEN << >>
    ELSE IF cands[1].text = << >> \/ cands[1].text \in seen
         THEN RuleTextsOnce(Tail(cands), class, seen)
         ELSE (IF RuleClass(cands[1]) = class THEN <<cands[1].text>> ELSE << >>)
              \o RuleTextsOnce(Tail(cands), class,
                    IF RuleClass(cands[1]) = "none" THEN seen
                    ELSE seen \cup {cands[1].text})

\* C12: a candidate tag with non-empty text is header exactly when the
\* combined styles of the tag and its nested spans declare a colour and it
\* is centre-aligned, sub-header exactly when it is centre-aligned without a
\* colour, and neither otherwise: the header and sub-header tracks are
\* made of exactly the texts of those tags
C12_ClassificationRule ==
    (pc = "done" /\ main_content_node.present) =>
        LET cands == Candidates(main_content_node.children)
        IN  /\ body_structure.header =
                  split_sentences(JoinTexts(RuleTexts(cands, "header")))
            /\ body_structure.sub_header =
                  split_sentences(JoinTexts(RuleTexts(cands, "sub-header")))

\* C12 amended: the rule holds for the candidate tags whose text is not the
\* text of an earlier tag already classified as header or sub-header; such
\* a tag is passed over
C12_ClassificationRuleOnce ==
    (pc = "done" /\ main_content_node.present) =>
        LET cands == Candidates(main_content_node.children)
        IN  /\ body_structure.header =
                  split_sentences(JoinTexts(RuleTextsOnce(cands, "header", {})))
            /\ body_structure.sub_header =
                  split_sentences(JoinTexts(RuleTextsOnce(cands, "sub-header", {})))

\* a tag made header by the style of its nested span, its span a header of
\* its own, then a centred tag with the same text, which is passed over
C12_Witness ==
    /\ pc = "done"
    /\ Len(main_content_node.children) = 2
    /\ LET cands == Candidates(main_content_node.children)
       IN  /\ Len(cands) = 4
           /\ main_content_node.children[1].style = << >>
           /\ main_content_node.children[1].align = ""
           /\ cands[1].text = <<"a", "b">>
           /\ cands[3].text = <<"a", "b">>
           /\ RuleClass(cands[1]) = "header"
           /\ RuleClass(cands[3]) = "sub-header"
    /\ body_structure.header = List(<< <<"a", "b", " ", "b">> >>)
    /\ body_structure.sub_header = None

---------------------------------------------------------------------------
(* Claims on split_sentences *)

\* the positions of a text where a character of X directly follows a digit
AfterDigit(t, X) == {i \in 2..Len(t) : t[i] \in X /\ t[i - 1] \in Digits}

\* how many periods the sentences of a list hold
RECURSIVE Periods(_)
Periods(l) ==
    IF Len(l) = 0 THEN 0
    ELSE Cardinality({i \in 1..Len(l[1]) : l[1][i] = "."}) + Periods(Tail(l))

\* every period follows a digit, and there is no '!' and no '?'
OnlyNumericPeriods(t) ==
    \A i \in 1..Len(t) :
        /\ t[i] \notin {"!", "?"}
        /\ t[i] = "." => i \in AfterDigit(t, {"."})

\* C13: no sentence ends at a '.' that directly follows a digit: the periods
\* left in the sentences are those that follow a digit in the text, and a
\* text that is not blank, whose only periods follow digits and that has no
\* '!' or '?' gives exactly one sentence, the trimmed text
C13_DigitPeriodNeverEndsSentence ==
    pc = "done" =>
        /\ Periods(sentences.list) = Cardinality(AfterDigit(split_text, {"."}))
        /\ (OnlyNumericPeriods(split_text) /\ Strip(split_text) # << >>) =>
              sentences = List(<<Strip(split_text)>>)


\* a track is null or a non-empty list of non-empty sentences
WellFormedTrack(track) ==
    \/ track = None
    \/ /\ ~track.none
       /\ track.list # << >>
       /\ \A i \in 1..Len(track.list) : track.list[i] # << >>

\* C14: header, sub-header and content are each null or a non-empty sequence
\* of non-empty sentences, never an empty sequence, and a track split from
\* the empty string (no header text, no sub-header text, no text at all in
\* the node) is null
C14_TracksNullOrNonEmpty ==
    pc = "done" =>
        /\ WellFormedTrack(body_structure.header)
        /\ WellFormedTrack(body_structure.sub_header)
        /\ WellFormedTrack(body_structure.content)
        /\ header_texts(main_content_node) = {} => body_structure.header = None
        /\ sub_header_texts(main_content_node) = {} =>
              body_structure.sub_header = None
        /\ NodeText(main_content_node.children) = << >> =>
              body_structure.content = None

\* a node whose header is null, whose sub-header has a sentence and whose
\* text leaves nothing for the content once the sub-header is taken out
C14_Witness ==
    /\ pc = "done"
    /\ main_content_node.present
    /\ NodeText(main_content_node.children) # << >>
    /\ body_structure.header = None
    /\ ~body_structure.sub_header.none
    /\ body_structure.content = None


\* the indices of a final content that hold the placeholder of table k
PlaceholdersOf(content, k) ==
    {i \in 1..Len(content) : content[i] = Placeholder(k)}

IsPlaceholder(x) == \E k \in 1..9 : x = Placeholder(k)

\* C15: when parse_tables returns N tables and the content has at least one
\* sentence, the final content holds exactly N placeholders, {table<k>}
\* once for each k in 1..N
C15_OnePlaceholderPerTable ==
    (pc = "done" /\ ~body_structure.content.none) =>
        LET content == body_structure.content.list
            N == Len(tables.list)
        IN  /\ \A k \in 1..N : Cardinality(PlaceholdersOf(content, k)) = 1
            /\ Cardinality({i \in 1..Len(content) : IsPlaceholder(content[i])}) = N

\* the sentences of a final content, its placeholders left out
RECURSIVE SentencesOf(_)
SentencesOf(content) ==
    IF Len(content) = 0 THEN << >>
    ELSE (IF IsPlaceholder(content[1]) THEN << >> ELSE <<content[1]>>)
         \o SentencesOf(Tail(content))

\* the stated interleaving of sentences s with T tables
StatedInterleaving(s, T) ==
    LET M == Len(s)
        both == IF T < M THEN T ELSE M
    IN  [i \in 1..(2 * both) |->
            IF i % 2 = 1 THEN s[(i + 1) \div 2] ELSE Placeholder(i \div 2)]
        \o (IF T > M THEN [j \in 1..(T - M) |-> Placeholder(M + j)]
            ELSE SubSeq(s, T + 1, M))

\* C16: with M >= 1 content sentences and the T tables of the node, the
\* final content is s1,{table1},s2,{table2},... up to min(T,M), then the
\* placeholders left when T > M or the sentences left when T < M, M+T
\* elements in all
C16_InterleavingRule ==
    (pc = "done" /\ ~body_structure.content.none) =>
        LET content == body_structure.content.list
            s == SentencesOf(content)
            T == Len(tables.list)
        IN  /\ content = StatedInterleaving(s, T)
            /\ Len(content) = Len(s) + T


\* [header] + rows of a result of parse_html_table
HeaderAndRows(parsed) == <<parsed.header>> \o parsed.row

\* C17: the table_data of every table parse_tables returns is [header] +
\* rows of parse_html_table on that table, merged tables included
C17_TableDataIsNormalizedGrid ==
    pc = "done" =>
        \A i \in 1..Len(tables.list) :
            LET parsed == parse_html_table(tables.list[i].table_html)
            IN  /\ parsed.raised = ""
                /\ tables.list[i].table_data = HeaderAndRows(parsed)


\* the results a call on a node can return, over the orders in which the
\* sets of header and sub-header strings can be iterated
Outcomes(content_node) ==
    {parse_body_structure(content_node, header_order, sub_header_order) :
        header_order \in Orders(header_texts(content_node)),
        sub_header_order \in Orders(sub_header_texts(content_node))}

\* C18: two calls on the same node return identical header, sub-header and
\* content, whatever the order in which the sets of classified strings are
\* iterated: the result of the call made is the only result a call has
C18_SameResultInEveryOrder ==
    pc = "done" => Outcomes(main_content_node) = {body_structure}

---------------------------------------------------------------------------
(* Calls in progress.  A call of parse_html_table or parse_body_structure  *)
(* is taken one loop pass at a time; calls[p] is where caller p stands,    *)
(* frames holds the local variables the passes read and write.             *)

\* the accumulators are module-level: every call uses the same ones
Frame_Shared(p) == 1

\* the frame of a call: grid, header_elements, ... are local variables,
\* created anew by each call
Frame(p) == p

\* another caller is inside a call
Met(p) == \E q \in Procs \ {p} : calls[q].at \notin {"idle", "done"}

Finished(fn, arg, ret, met) ==
    [fn |-> fn, at |-> "done", arg |-> arg, ret |-> ret,
     concurrent |-> met]

\* header and rows from the grids normalize_rows returned
Assembled(branch, grids) ==
    IF branch = "thead"
    THEN LET header_grid == grids[1]
             body_grid == grids[2]
         IN  Returned(IF Len(header_grid) > 0 THEN header_grid[1] ELSE << >>,
                      (IF Len(header_grid) > 1 THEN Tail(header_grid) ELSE << >>)
                        \o body_grid)
    ELSE LET grid == grids[1]
         IN  IF Len(grid) > 0 THEN Returned(grid[1], Tail(grid))
             ELSE Returned(<< >>, << >>)

\* parse_html_table(doc) up to the first call of normalize_rows
StartTable(p, doc) ==
    /\ calls[p].at = "idle"
    /\ IF ~doc.table
       THEN /\ calls' = [calls EXCEPT ![p] =
                   Finished("parse_html_table", doc, Returned(<< >>, << >>), Met(p))]
            /\ UNCHANGED frames
       ELSE LET thead == FindSection(doc.sections, "thead", 1)
                tbody == FindSection(doc.sections, "tbody", 1)
            IN  /\ calls' = [calls EXCEPT ![p] =
                       [fn |-> "parse_html_table", at |-> "rows", arg |-> doc,
                        branch |-> IF thead # 0 THEN "thead" ELSE "headless",
                        jobs |-> IF thead # 0
                                 THEN <<doc.sections[thead].trs,
                                        BodyTrs(doc.sections, tbody)>>
                                 ELSE <<AllTrs(doc.sections, FALSE)>>,
                        job |-> 1, row_index |-> 0, cell_no |-> 0,
                        concurrent |-> Met(p)]]
                /\ frames' = [frames EXCEPT ![Frame(p)] =
                       [@ EXCEPT !.st = StartOfRun, !.grids = << >>]]

\* the head of one pass of the loop over the rows, or, the rows being
\* through, the return of normalize_rows and what follows it
RowStep(p) ==
    /\ calls[p].at = "rows"
    /\ LET c == calls[p]
           f == frames[Frame(p)]
           trs == c.jobs[c.job]
       IN  IF c.row_index < Len(trs)
           THEN LET g1 == EnsureRow(f.st.grid, c.row_index)
                    nf == next_free_col(g1[c.row_index + 1], 0)
                IN  /\ frames' = [frames EXCEPT ![Frame(p)].st =
                           [@ EXCEPT !.grid = g1, !.col_index = nf.col]]
                    /\ calls' = [calls EXCEPT ![p] =
                           IF Len(trs[c.row_index + 1]) = 0
                           THEN [@ EXCEPT !.row_index = @ + 1,
                                          !.concurrent = @ \/ Met(p)]
                           ELSE [@ EXCEPT !.at = "cells", !.cell_no = 1,
                                          !.concurrent = @ \/ Met(p)]]
           ELSE LET grids == Append(f.grids, f.st.grid)
                IN  IF c.job < Len(c.jobs)
                    THEN /\ frames' = [frames EXCEPT ![Frame(p)] =
                                [@ EXCEPT !.st = StartOfRun, !.grids = grids]]
                         /\ calls' = [calls EXCEPT ![p] =
                                [@ EXCEPT !.job = @ + 1, !.row_index = 0,
                                          !.concurrent = @ \/ Met(p)]]
                    ELSE /\ frames' = [frames EXCEPT ![Frame(p)].grids = grids]
                         /\ calls' = [calls EXCEPT ![p] =
                                Finished(c.fn, c.arg, Assembled(c.branch, grids),
                                         c.concurrent \/ Met(p))]
    /\ UNCHANGED <<pc, html, result>>
    /\ UNCHANGED crawlerVars
    /\ UNCHANGED runVars

\* one pass of the loop over the cells of a row
CellStep(p) ==
    /\ calls[p].at = "cells"
    /\ LET c == calls[p]
           f == frames[Frame(p)]
           tr == c.jobs[c.job][c.row_index + 1]
           st1 == PlaceCell(f.st, c.row_index, c.cell_no, tr[c.cell_no])
       IN  /\ frames' = [frames EXCEPT ![Frame(p)].st = st1]
           /\ calls' = [calls EXCEPT ![p] =
                  IF st1.raised # ""
                  THEN Finished(c.fn, c.arg, Raised(st1.raised),
                                c.concurrent \/ Met(p))
                  ELSE IF c.cell_no < Len(tr)
                  THEN [@ EXCEPT !.cell_no = @ + 1, !.concurrent = @ \/ Met(p)]
                  ELSE [@ EXCEPT !.at = "rows", !.row_index = @ + 1,
                                 !.concurrent = @ \/ Met(p)]]
    /\ UNCHANGED <<pc, html, result>>
    /\ UNCHANGED crawlerVars
    /\ UNCHANGED runVars

\* parse_body_structure(node) up to the classification loop
StartBody(p, content_node) ==
    /\ calls[p].at = "idle"
    /\ IF ~content_node.present
       THEN /\ calls' = [calls EXCEPT ![p] =
                   Finished("parse_body_structure", content_node,
                            BodyOf(None, None, None), Met(p))]
            /\ UNCHANGED frames
       ELSE /\ calls' = [calls EXCEPT ![p] =
                   [fn |-> "parse_body_structure", at |-> "tags",
                    arg |-> content_node,
                    cands |-> Candidates(content_node.children),
                    concurrent |-> Met(p)]]
            /\ frames' = [frames EXCEPT ![Frame(p)].cls = NoneClassified]

\* one pass of the classification loop
TagStep(p) ==
    /\ calls[p].at = "tags"
    /\ calls[p].cands # << >>
    /\ frames' = [frames EXCEPT ![Frame(p)].cls = ClassifyTag(@, Head(calls[p].cands))]
    /\ calls' = [calls EXCEPT ![p] =
           [@ EXCEPT !.cands = Tail(@), !.concurrent = @ \/ Met(p)]]
    /\ UNCHANGED <<pc, html, result>>
    /\ UNCHANGED crawlerVars
    /\ UNCHANGED runVars

\* the loop being through, the rest of parse_body_structure
ReturnBody(p) ==
    /\ calls[p].at = "tags"
    /\ calls[p].cands = << >>
    /\ LET c == calls[p]
           st == frames[Frame(p)].cls
       IN  \E header_order \in Orders(Elements(st.header_elements)),
              sub_header_order \in Orders(Elements(st.sub_header_elements)) :
              calls' = [calls EXCEPT ![p] =
                  Finished(c.fn, c.arg,
                           StructureFrom(c.arg, st, header_order, sub_header_order),
                           c.concurrent \/ Met(p))]
    /\ UNCHANGED frames
    /\ UNCHANGED <<pc, html, result>>
    /\ UNCHANGED crawlerVars
    /\ UNCHANGED runVars

(* One call of parse_html_table on a grid document, pass by pass *)

StepsCall ==
    /\ pc = "idle"
    /\ StartTable(1, html)
    /\ pc' = "called"
    /\ UNCHANGED <<html, result>>
    /\ UNCHANGED crawlerVars
    /\ UNCHANGED runVars

StepsRow == RowStep(1)

StepsCell == CellStep(1)

NextSteps == WriteGridRow \/ StepsCall \/ StepsRow \/ StepsCell

SpecSteps == Init /\ [][NextSteps]_vars

(* Two callers, each making one call, their passes interleaved *)

CallTables ==
    {WithRow(WithRow(EmptyTable, RowM), RowW2),
     WithSection(WithSection(EmptyTable, "thead", <<RowW2>>), "tbody", <<RowBW>>),
     Untabled(EmptyTable)}

CallNodes ==
    {AbsentNode,
     [present |-> TRUE,
      children |-> <<TagNode(ColorCenter, "", <<OwnText(<<"a">>)>>),
                     TagNode(CenterOnly, "", <<OwnText(<<"a", "b">>)>>),
                     TextNode(<<" ", "b", ".", "\n", " ", "a">>)>>]}

CallsTable ==
    /\ \E p \in Procs, doc \in CallTables : StartTable(p, doc)
    /\ UNCHANGED <<pc, html, result>>
    /\ UNCHANGED crawlerVars
    /\ UNCHANGED runVars

CallsBody ==
    /\ \E p \in Procs, content_node \in CallNodes : StartBody(p, content_node)
    /\ UNCHANGED <<pc, html, result>>
    /\ UNCHANGED crawlerVars
    /\ UNCHANGED runVars

CallsRow == \E p \in Procs : RowStep(p)

CallsCell == \E p \in Procs : CellStep(p)

CallsTag == \E p \in Procs : TagStep(p)

CallsReturn == \E p \in Procs : ReturnBody(p)

NextCalls ==
    CallsTable \/ CallsBody \/ CallsRow \/ CallsCell \/ CallsTag \/ CallsReturn

SpecCalls == Init /\ [][NextCalls]_vars

---------------------------------------------------------------------------
(* Claims on calls in progress *)

\* the 0-based positions the placements of a log have occupied
Occupied(placed, r, c) == \E m \in 1..Len(placed) : InRect(placed[m], r, c)

\* the first column of row r that no placement of the log has occupied
FirstUnoccupied(placed, r) ==
    CHOOSE c \in 0..(Len(placed) * 2 + 1) :
        /\ ~Occupied(placed, r, c)
        /\ \A b \in 0..(c - 1) : Occupied(placed, r, b)

\* the pass of caller p from st to st1 placed one more cell
PlacedOne(p) ==
    /\ calls[p].at = "cells"
    /\ frames'[Frame(p)].st.raised = ""
    /\ Len(frames'[Frame(p)].st.placed) = Len(frames[Frame(p)].st.placed) + 1

\* C20: once a position has been written by the placement of a cell, no
\* later placement changes its value, and each later cell starts at the
\* first column of its row that no earlier placement has occupied; whatever
\* the contents, the empty string included
C20_FirstWrittenWins ==
    [][\A p \in Procs :
          PlacedOne(p) =>
              LET before == frames[Frame(p)].st
                  after == frames'[Frame(p)].st
                  new == after.placed[Len(after.placed)]
              IN  /\ \A r \in 0..(Len(before.grid) - 1) :
                        \A c \in 0..(Len(before.grid[r + 1]) - 1) :
                            Occupied(before.placed, r, c) =>
                                after.grid[r + 1][c + 1] = before.grid[r + 1][c + 1]
                  /\ new.col = FirstUnoccupied(before.placed, new.row)]_vars


\* the results a call can return when it runs alone
Alone(fn, arg) ==
    IF fn = "parse_html_table" THEN {parse_html_table(arg)}
    ELSE Outcomes(arg)

\* C19: calls of parse_html_table and parse_body_structure are independent:
\* however the passes of two calls are interleaved, each call returns a
\* result it returns when it runs alone, the local variables of a call
\* change only in its own passes, and nothing outside the calls changes
C19_CallsIndependent ==
    /\ [](\A p \in Procs :
             calls[p].at = "done" =>
                 calls[p].ret \in Alone(calls[p].fn, calls[p].arg))
    /\ [][/\ \A q \in Procs :
                calls'[q] = calls[q] => frames'[Frame(q)] = frames[Frame(q)]
          /\ <<pc, html, result, crawlerVars>>' = <<pc, html, result, crawlerVars>>]_vars

\* a call of parse_html_table on a table with merged cells and a call of
\* parse_body_structure have both returned, each having made passes while
\* the other was in progress
C19_Witness ==
    /\ calls[1].at = "done"
    /\ calls[2].at = "done"
    /\ calls[1].fn = "parse_html_table"
    /\ calls[2].fn = "parse_body_structure"
    /\ calls[1].concurrent
    /\ calls[2].concurrent
    /\ calls[1].ret.raised = ""
    /\ Len(calls[1].ret.header) = 3
    /\ calls[2].ret.header # None
    /\ calls[2].ret.content # None

---------------------------------------------------------------------------
(* Claims on what the classification loop records *)

NoDuplicate(l) == \A i, j \in 1..Len(l) : l[i] = l[j] => i = j

\* the texts the passes before pass i made header or sub-header
ClassifiedBefore(log, i) ==
    {log[j].text : j \in {k \in 1..(i - 1) : log[k].class \in {"header", "sub-header"}}}

\* C21: each classified text is recorded once: after the loop over the
\* candidate tags of a node, header_elements and sub_header_elements hold
\* no string twice, no string is in both, and a tag whose text was already
\* classified is skipped, not classified again
C21_EachTextRecordedOnce ==
    (pc = "done" /\ main_content_node.present) =>
        LET st == Classified(main_content_node)
        IN  /\ NoDuplicate(st.header_elements)
            /\ NoDuplicate(st.sub_header_elements)
            /\ Elements(st.header_elements) \cap Elements(st.sub_header_elements) = {}
            /\ \A i \in 1..Len(st.log) :
                  st.log[i].text \in ClassifiedBefore(st.log, i) =>
                      st.log[i].class = "skipped"
            /\ body_structure.header = split_sentences(JoinTexts(st.header_elements))
            /\ body_structure.sub_header =
                  split_sentences(JoinTexts(st.sub_header_elements))

\* a header text met again in a tag that is centred without a colour, and
\* skipped there
C21_Witness ==
    /\ pc = "done"
    /\ main_content_node.present
    /\ LET st == Classified(main_content_node)
           cands == Candidates(main_content_node.children)
       IN  \E i \in 1..Len(st.log) :
              /\ st.log[i].text \in Elements(st.header_elements)
              /\ st.log[i].text \in ClassifiedBefore(st.log, i)
              /\ has_center_align(cands[i]) /\ ~has_color_style(cands[i])
              /\ st.log[i].class = "skipped"
              /\ st.sub_header_elements = << >>

\* the orders in which the call that gave body_structure can have iterated
\* header_texts and sub_header_texts
OrdersTaken ==
    {o \in Orders(header_texts(main_content_node))
           \X Orders(sub_header_texts(main_content_node)) :
        body_structure = parse_body_structure(main_content_node, o[1], o[2])}

\* full_text with the strings of a set deleted, where deleting them in any
\* order leaves the same string
DeletedFrom(s, strings) == {RemovedEach(s, order) : order \in Orders(strings)}

\* C22: the content string is the full text of the node with every header
\* string and every sub-header string deleted, then runs of white space
\* collapsed to one space; so the string given to split_sentences has no
\* occurrence of a header string or of a sub-header string
C22_ContentHoldsNoClassifiedString ==
    (pc = "done" /\ main_content_node.present) =>
        \A o \in OrdersTaken :
            LET content_text == ContentText(main_content_node, o[1], o[2])
                classified == header_texts(main_content_node)
                                \cup sub_header_texts(main_content_node)
            IN  /\ \E deleted \in DeletedFrom(NodeText(main_content_node.children),
                                              classified) :
                      content_text = Strip(Collapsed(deleted))
                /\ \A t \in classified : ~In(t, content_text)

\* {table1}..{table<T>}
PlaceholdersUpTo(T) == [k \in 1..T |-> Placeholder(k)]

\* C23: placeholders are never fewer than tables: when the node has T >= 1
\* tables, each of them with text, and its content string gives no
\* sentence, the final content is the T placeholders {table1}..{table<T>}
\* in order
C23_PlaceholdersWithoutSentences ==
    (/\ pc = "done"
     /\ main_content_node.present
     /\ Len(tables.list) >= 1
     /\ TablePositions(FindTables(main_content_node.children)) =
            FindTables(main_content_node.children)) =>
        \A o \in OrdersTaken :
            split_sentences(ContentText(main_content_node, o[1], o[2])) = None =>
                body_structure.content = List(PlaceholdersUpTo(Len(tables.list)))

\* C24: the placeholder {table<K>} of the final content stands for the
\* K-th table of the list parse_tables returns for the same node: the K-th
\* table the placeholders are numbered over is that table, also in a node
\* where some table has no text
C24_PlaceholderNamesKthTable ==
    (pc = "done" /\ main_content_node.present /\ ~body_structure.content.none) =>
        LET table_positions == TablePositions(FindTables(main_content_node.children))
            content == body_structure.content.list
        IN  \A K \in 1..9 :
                PlaceholdersOf(content, K) # {} =>
                    /\ K <= Len(tables.list)
                    /\ K <= Len(table_positions)
                    /\ table_positions[K] = tables.list[K].table_html

---------------------------------------------------------------------------
(* Claims on the sentences split_sentences returns *)

\* a sentence as stated: not empty, no white space at either end, no '!'
\* and no '?', every '.' straight after a digit
WellFormedSentence(s) ==
    /\ s # << >>
    /\ Head(s) \notin Whitespace
    /\ s[Len(s)] \notin Whitespace
    /\ OnlyNumericPeriods(s)

\* C25: every sentence split_sentences returns is non-empty, has no leading
\* or trailing white space, holds no '!' and no '?', and every '.' in it
\* directly follows a digit
C25_SentencesWellFormed ==
    (pc = "done" /\ ~sentences.none) =>
        \A i \in 1..Len(sentences.list) : WellFormedSentence(sentences.list[i])

\* a text with white space around a terminator and a period after a digit,
\* split in two sentences, the period kept
C25_Witness ==
    /\ pc = "done"
    /\ ~sentences.none
    /\ Len(sentences.list) = 2
    /\ \E i \in 1..(Len(split_text) - 1) :
          split_text[i] = " " /\ split_text[i + 1] \in {"!", "?"}
    /\ AfterDigit(split_text, {"."}) # {}
    /\ Periods(sentences.list) = 1

\* the pieces of a text cut at its terminators, a '.' that directly follows
\* a digit not being one; i is the position read, piece the piece so far
RECURSIVE CutOutsideNumbers(_, _, _)
CutOutsideNumbers(t, i, piece) ==
    IF i > Len(t) THEN <<piece>>
    ELSE IF t[i] \in Terminators /\ i \notin AfterDigit(t, {"."})
         THEN <<piece>> \o CutOutsideNumbers(t, i + 1, << >>)
         ELSE CutOutsideNumbers(t, i + 1, Append(piece, t[i]))

\* C26: the '@' put in place of a '.' after a digit and its restoration
\* change no character of the text but the terminators taken out: the
\* sentences are the trimmed pieces of the text itself, an '@' after a
\* digit is still '@' in them, and a text that is not blank and has no
\* '.', '!' or '?' gives one sentence, the trimmed text
C26_SentinelRoundTrip ==
    pc = "done" =>
        /\ sentences.list = StrippedNonEmpty(CutOutsideNumbers(split_text, 1, << >>))
        /\ (/\ Strip(split_text) # << >>
            /\ \A i \in 1..Len(split_text) : split_text[i] \notin Terminators) =>
              sentences = List(<<Strip(split_text)>>)

---------------------------------------------------------------------------
(* Claims on the rows and columns of normalize_rows *)

\* C27: normalize_rows returns one grid row for each <tr> it is given, no
\* more and no fewer, also when the rowspan of a cell reaches past the
\* last <tr>
C27_OneGridRowPerTr ==
    (pc = "done" /\ result.raised = "") =>
        LET tr_elements == AllTrs(html.sections, FALSE)
            grid == normalize_rows(tr_elements).grid
        IN  /\ Len(grid) = Len(tr_elements)
            /\ grid # << >> => GridOf(result) = grid

\* the log of the cells normalize_rows placed for the table parsed
PlacedCells == NormalizeRun(AllTrs(html.sections, FALSE)).placed

\* C28: within one <tr> the column cursor never decreases: no cell moves it
\* back, and the starting columns of the cells of the row are strictly
\* increasing in source order, for every colspan and rowspan value that
\* is accepted
C28_StartColumnsIncrease ==
    (pc = "done" /\ result.raised = "") =>
        /\ \A m \in 1..Len(PlacedCells) :
              PlacedCells[m].col + PlacedCells[m].colspan >= PlacedCells[m].col
        /\ \A m, n \in 1..Len(PlacedCells) :
              (PlacedCells[m].row = PlacedCells[n].row /\ m < n) =>
                  PlacedCells[m].col < PlacedCells[n].col

\* C29: no cell is lost: every source cell whose content is not empty is
\* in the grid at its own starting position, its row and the column chosen
\* for it, for every accepted rowspan and colspan value
C29_NoCellLost ==
    (pc = "done" /\ result.raised = "") =>
        \A m \in 1..Len(PlacedCells) :
            PlacedCells[m].content # "" =>
                Holds(GridOf(result), PlacedCells[m].row, PlacedCells[m].col,
                      PlacedCells[m].content)

---------------------------------------------------------------------------
(* The crawl loop.  A href is the sequence of the segments of its path,   *)
(* "/bbs/co_ko/84/1/artclView.do" being <<"bbs", "co_ko", "84", "1",      *)
(* "artclView.do">>; a url is a href behind the base.  An id is a         *)
(* sequence too: the one number of a numbered link, or the whole url.     *)
(* The title of a link, which no decision of crawl reads, is left out.    *)

BASE == "https://www.airport.kr"

ArticleDir == <<"bbs", "co_ko", "84">>

\* the segments the pattern \d+ matches
Numbers == {"1", "2"}

\* "/bbs/co_ko/84/" in href and href.endswith("/artclView.do")
IsArticleLink(href) ==
    /\ \E i \in 0..(Len(href) - 4) : SubSeq(href, i + 1, i + 3) = ArticleDir
    /\ href[Len(href)] = "artclView.do"

\* where re.search(r"/bbs/co_ko/84/(\d+)/artclView\.do", s) can match
MatchesAt(s) ==
    {i \in 0..(Len(s) - 5) :
        /\ SubSeq(s, i + 1, i + 3) = ArticleDir
        /\ s[i + 4] \in Numbers
        /\ s[i + 5] = "artclView.do"}

\* m.group(1) of the leftmost match
Group1(s) ==
    LET i == CHOOSE j \in MatchesAt(s) : \A k \in MatchesAt(s) : j <= k
    IN  <<s[i + 4]>>

\* urljoin(BASE, href), href an absolute path
urljoin(href) == <<BASE>> \o href

\* the row appended for one <a> that passes the filter
RowOfLink(href) ==
    LET url == urljoin(href)
    IN  [id |-> IF MatchesAt(href) # {} THEN Group1(href) ELSE url,
         url |-> url]

\* uniq[r["id"]] = r for every row: a dict keeps the place of the first
\* row of an id and the value of the last
RECURSIVE Uniq(_, _)
Uniq(uniq, rows) ==
    IF Len(rows) = 0 THEN uniq
    ELSE LET r == Head(rows)
             at == {j \in 1..Len(uniq) : uniq[j].id = r.id}
         IN  Uniq(IF at = {} THEN Append(uniq, r)
                  ELSE [j \in 1..Len(uniq) |-> IF j \in at THEN r ELSE uniq[j]],
                  Tail(rows))

\* extract_articles_from_list(soup), soup seen as its <a href> in order
extract_articles_from_list(soup) ==
    LET kept == SelectSeq(soup, IsArticleLink)
    IN  Uniq(<< >>, [k \in 1..Len(kept) |-> RowOfLink(kept[k])])

\* the ids crawl adds to seen_ids for the articles it loaded
LoadedIds(existing) ==
    {Group1(existing[k].url) :
        k \in {j \in 1..Len(existing) : MatchesAt(existing[j].url) # {}}}

\* the list pages of the site
MaxPages == 2

\* how many calls of crawl are followed
CrawlCalls == 0..1

\* how many <a href> a list page has
LinkCounts == 0..2

\* the values of max_pages: none, or one page
Limits == {0, 1}

\* two links to article 1, a link to article 2, an article link without a
\* number and a link that is not an article's
Hrefs ==
    {<<"bbs", "co_ko", "84", "1", "artclView.do">>,
     <<"co_ko", "bbs", "co_ko", "84", "1", "artclView.do">>,
     <<"bbs", "co_ko", "84", "2", "artclView.do">>,
     <<"bbs", "co_ko", "84", "artclView.do">>,
     <<"co_ko", "664", "subview.do">>}

Soups == UNION {[1..n -> Hrefs] : n \in LinkCounts}

\* the code after the while loop: the articles are written to the file
SaveAndReturn ==
    /\ out_json' = [exists |-> TRUE, articles |-> articles]
    /\ crawl_at' = "returned"

\* crawl(max_pages, delay, out_json, start_page) up to the while loop;
\* the file is read when start_page > 1, and a file that cannot be read
\* is treated as no file
CallCrawl ==
    /\ crawl_at \in {"idle", "returned"}
    /\ crawl_calls \in CrawlCalls
    /\ crawl_calls' = crawl_calls + 1
    /\ \E page \in 1..MaxPages, limit \in Limits :
          /\ start_page' = page
          /\ max_pages' = limit
          /\ current_page' = page
          /\ \E readable \in BOOLEAN :
                IF page > 1 /\ out_json.exists /\ readable
                THEN /\ articles' = out_json.articles
                     /\ seen_ids' = LoadedIds(out_json.articles)
                ELSE /\ articles' = << >>
                     /\ seen_ids' = {}
    /\ loaded' = articles'
    /\ fetched' = << >>
    /\ page_items' = << >>
    /\ crawl_at' = "page"
    /\ UNCHANGED out_json
    /\ UNCHANGED <<pc, html, result>>
    /\ UNCHANGED crawlerVars
    /\ UNCHANGED callVars

\* the head of one pass of the while loop: get_soup raises, or the page
\* has no item, and the loop is left; or the for loop is entered.  A page
\* after the last one has no link.
FetchPage ==
    /\ crawl_at = "page"
    /\ \/ /\ SaveAndReturn
          /\ UNCHANGED page_items
       \/ \E soup \in Soups :
             /\ current_page > MaxPages => soup = << >>
             /\ LET items == extract_articles_from_list(soup)
                IN  IF items = << >>
                    THEN /\ SaveAndReturn
                         /\ UNCHANGED page_items
                    ELSE /\ page_items' = items
                         /\ crawl_at' = "items"
                         /\ UNCHANGED out_json
    /\ UNCHANGED <<crawl_calls, start_page, max_pages, seen_ids, articles,
                   current_page, loaded, fetched>>
    /\ UNCHANGED <<pc, html, result>>
    /\ UNCHANGED crawlerVars
    /\ UNCHANGED callVars

\* one pass of the for loop: an item already seen is passed over, another
\* is handed to parse_article, which returns a record or raises
CrawlItem ==
    /\ crawl_at = "items"
    /\ page_items # << >>
    /\ LET it == Head(page_items)
       IN  IF it.id \in seen_ids
           THEN UNCHANGED <<seen_ids, articles, fetched>>
           ELSE /\ seen_ids' = seen_ids \cup {it.id}
                /\ fetched' = Append(fetched, it)
                /\ \E raised \in BOOLEAN :
                      articles' = Append(articles, [url |-> it.url, error |-> raised])
    /\ page_items' = Tail(page_items)
    /\ UNCHANGED <<out_json, crawl_at, crawl_calls, start_page, max_pages,
                   current_page, loaded>>
    /\ UNCHANGED <<pc, html, result>>
    /\ UNCHANGED crawlerVars
    /\ UNCHANGED callVars

\* the for loop is through: the loop is left at max_pages, or goes on
\* with the next page
EndPage ==
    /\ crawl_at = "items"
    /\ page_items = << >>
    /\ IF max_pages # 0 /\ current_page >= max_pages
       THEN /\ SaveAndReturn
            /\ UNCHANGED current_page
       ELSE /\ current_page' = current_page + 1
            /\ crawl_at' = "page"
            /\ UNCHANGED out_json
    /\ UNCHANGED <<crawl_calls, start_page, max_pages, seen_ids, articles,
                   page_items, loaded, fetched>>
    /\ UNCHANGED <<pc, html, result>>
    /\ UNCHANGED crawlerVars
    /\ UNCHANGED callVars

NextCrawl == CallCrawl \/ FetchPage \/ CrawlItem \/ EndPage

SpecCrawl == Init /\ [][NextCrawl]_vars

---------------------------------------------------------------------------
(* Claims on the crawl *)

\* the id extract_articles_from_list gives the link of a stored url
IdOfUrl(url) == IF MatchesAt(url) # {} THEN Group1(url) ELSE url

\* at most one call of parse_article and one record for an id in a call of
\* crawl, and none for an id of the file that was loaded
FetchedOnce ==
    /\ NoDuplicate([k \in 1..Len(fetched) |-> fetched[k].id])
    /\ Len(articles) = Len(loaded) + Len(fetched)
    /\ \A k \in 1..Len(fetched) : articles[Len(loaded) + k].url = fetched[k].url
    /\ \A k \in 1..Len(fetched), j \in 1..Len(loaded) :
          fetched[k].id # IdOfUrl(loaded[j].url)

\* a pass of the for loop leaves the loop at the next item, whether
\* parse_article raised or not, and a record it appends is the item's
ItemPassGoesOn ==
    (crawl_at = "items" /\ page_items # << >>) =>
        /\ crawl_at' = "items"
        /\ page_items' = Tail(page_items)
        /\ articles' # articles =>
              /\ articles' = Append(articles, articles'[Len(articles')])
              /\ articles'[Len(articles')].url = Head(page_items).url

\* C30: in one call of crawl, over any sequence of list pages,
\* parse_article is called at most once for an article id and at most one
\* record is appended for it; when the call resumes from the output file,
\* an id of the file is never fetched or appended again; and when
\* parse_article fails an error record is appended for the item and the
\* crawl goes on with the next item
C30_CrawlDeduplicates == []FetchedOnce /\ [][ItemPassGoesOn]_vars

=============================================================================
